---- MODULE Spec2Model ----
(***************************************************************************)
(* Model of the study-planning team: a selector group chat over three      *)
(* participants (User, PlannerAgent, CalendarAgent), the two tools         *)
(* save_schedule_json / load_schedule_json that share the file plan.json,  *)
(* and the calendar synchronisation create_events_from_plan.               *)
(*                                                                         *)
(* Spec follows one team through its runs; SpecCancel adds                 *)
(* cancel_conversation, SpecSocket runs the team with a socket service,    *)
(* SpecShared puts another team's saves next to it, SpecTools calls the    *)
(* two tools directly, and SpecManager is the manager with its teams.      *)
(*                                                                         *)
(* Strings of the program that hold non-ASCII marks are written without    *)
(* the mark ("JSON SAVED" for the check-marked text of the source).        *)
(***************************************************************************)
EXTENDS Integers, Sequences, FiniteSets, TLC

VARIABLES
    max_turns,             \* StudyPlanningTeam.max_turns
    initial_message,       \* StudyPlanningTeam.initial_message
    conversation_history,  \* StudyPlanningTeam.conversation_history
    history,               \* what the selector prompt's {history} shows of the team's messages
    state,                 \* position of the run: Idle, AwaitingSelector, AwaitingParticipantReply, Terminated
    speaker,               \* participant chosen by the selector for the turn in progress
    turn,                  \* turns completed in the current run
    runs,                  \* runs started on this team
    result,                \* value returned by the last run_conversation
    plan_json,             \* content of the file plan.json, or NoFile
    calendar,              \* events the calendar holds (successful inserts), oldest first
    last_tool,             \* record of the last tool execution (input, output, prints, inserts)
    last_saved,            \* history variable: the records with the required keys in the argument of the last save that wrote plan.json
    cancellation_token,    \* StudyPlanningTeam.cancellation_token: TRUE once cancelled
    call,                  \* the method that started the run in progress and its socketio_service argument
    emitted,               \* the task_message events the socket service has emitted for the run
    active_teams,          \* StudyPlanningTeamManager.active_teams
    teams_created,         \* StudyPlanningTeam objects constructed by the manager so far
    returned,              \* the last operation on the manager or on one of its teams, with what it returned
    latest                 \* history variable: per task id, the team of the last create_team with no remove_team after it

\* The variables of the team that the runs are followed on.
team_vars == <<max_turns, initial_message, conversation_history, history, state,
               speaker, turn, runs, result, cancellation_token, call, emitted>>

\* The file and the calendar, and the records of the tool executions.
tool_vars == <<plan_json, calendar, last_tool, last_saved>>

\* The variables of the manager.
manager_vars == <<active_teams, teams_created, returned, latest>>

vars == <<team_vars, tool_vars, manager_vars>>

-----------------------------------------------------------------------------
(* Bounds of the model *)

MaxTurns == 3

MaxRuns == 2

MaxEvents == 3

MaxToolCalls == 2

MaxTeams == 3

-----------------------------------------------------------------------------
(* Plan candidates handed to save_schedule_json *)

\* plan.json is held as a sequence: empty when the file does not exist, one
\* document when it does.
NoFile == <<>>

DefaultTimeZone == "Asia/Ho_Chi_Minh"

ItemFull == [summary |-> "Math", start |-> "T08", end |-> "T09",
             timeZone |-> "UTC", description |-> "Review integrals"]

ItemBare == [summary |-> "Physics", start |-> "T10", end |-> "T11"]

ItemNoSummary == [start |-> "T08", end |-> "T09", timeZone |-> "UTC"]

ItemNoEnd == [summary |-> "Chemistry", start |-> "T09"]

Items == {ItemFull, ItemBare, ItemNoSummary, ItemNoEnd}

\* Records that have every required key and are malformed in their values.
ItemEmptySummary == [summary |-> "", start |-> "T08", end |-> "T09"]

ItemEndBeforeStart == [summary |-> "Biology", start |-> "T11", end |-> "T10"]

ItemEndAtStart == [summary |-> "Art", start |-> "T10", end |-> "T10"]

RECURSIVE SeqsUpTo(_, _)
SeqsUpTo(S, n) ==
    IF n = 0 THEN {<<>>}
    ELSE LET shorter == SeqsUpTo(S, n - 1)
         IN  shorter \cup {Append(s, x) : s \in {t \in shorter : Len(t) = n - 1}, x \in S}

\* dict.get(key, default)
Get(item, key, default) == IF key \in DOMAIN item THEN item[key] ELSE default

\* The keys read with item[...] in the try block; a missing one raises KeyError.
RequiredKeys == {"summary", "start", "end"}

RaisesKeyError(item) == \E k \in RequiredKeys : k \notin DOMAIN item

\* The event dict built in the try block of save_schedule_json.
BuildEvent(item) ==
    [summary |-> item["summary"],
     start |-> [dateTime |-> item["start"],
                timeZone |-> Get(item, "timeZone", DefaultTimeZone)],
     end |-> [dateTime |-> item["end"],
              timeZone |-> Get(item, "timeZone", DefaultTimeZone)],
     description |-> Get(item, "description", "")]

\* The loop stopping at the first record it drops.
RECURSIVE ValidEvents_StopAtDropped(_)
ValidEvents_StopAtDropped(items) ==
    IF items = <<>> THEN <<>>
    ELSE IF RaisesKeyError(Head(items)) THEN <<>>
         ELSE <<BuildEvent(Head(items))>> \o ValidEvents_StopAtDropped(Tail(items))

\* The loop of save_schedule_json: valid_events in order, and the number of
\* "Missing required field" lines printed.
RECURSIVE ValidEvents(_)
ValidEvents(items) ==
    IF items = <<>> THEN <<>>
    ELSE IF RaisesKeyError(Head(items)) THEN ValidEvents(Tail(items))
         ELSE <<BuildEvent(Head(items))>> \o ValidEvents(Tail(items))

RECURSIVE MissingFieldPrints(_)
MissingFieldPrints(items) ==
    IF items = <<>> THEN 0
    ELSE (IF RaisesKeyError(Head(items)) THEN 1 ELSE 0) + MissingFieldPrints(Tail(items))

\* json.dump({"events": valid_events}): each event object written as its
\* members in order, the nested start/end objects as (dateTime, timeZone).
JsonDumpEvent(e) ==
    <<e.summary, <<e.start.dateTime, e.start.timeZone>>,
      <<e.end.dateTime, e.end.timeZone>>, e.description>>

JsonDump(events) == [events |-> [i \in 1..Len(events) |-> JsonDumpEvent(events[i])]]

JsonLoadEvent_StartForEnd(t) ==
    [summary |-> t[1],
     start |-> [dateTime |-> t[2][1], timeZone |-> t[2][2]],
     end |-> [dateTime |-> t[2][1], timeZone |-> t[2][2]],
     description |-> t[4]]

\* json.load of a document written by JsonDump.
JsonLoadEvent(t) ==
    [summary |-> t[1],
     start |-> [dateTime |-> t[2][1], timeZone |-> t[2][2]],
     end |-> [dateTime |-> t[3][1], timeZone |-> t[3][2]],
     description |-> t[4]]

JsonLoad(doc) == [events |-> [i \in 1..Len(doc.events) |-> JsonLoadEvent(doc.events[i])]]

SAVED == "JSON SAVED"

NO_VALID_EVENTS == "No valid events to save."

\* The file opened for appending: the events written before stay in it.
save_schedule_json_Append(json_data, file) ==
    LET valid_events == ValidEvents(Get(json_data, "events", <<>>))
        prints == MissingFieldPrints(Get(json_data, "events", <<>>))
    IN  IF valid_events = <<>>
        THEN [output |-> NO_VALID_EVENTS, file |-> file, prints |-> prints]
        ELSE [output |-> SAVED,
              file |-> IF file = NoFile THEN <<JsonDump(valid_events)>>
                       ELSE <<[events |-> file[1].events \o JsonDump(valid_events).events]>>,
              prints |-> prints]

\* The file written before the check for valid events.
save_schedule_json_WritesBeforeCheck(json_data, file) ==
    LET valid_events == ValidEvents(Get(json_data, "events", <<>>))
        prints == MissingFieldPrints(Get(json_data, "events", <<>>))
    IN  [output |-> IF valid_events = <<>> THEN NO_VALID_EVENTS ELSE SAVED,
         file |-> <<JsonDump(valid_events)>>,
         prints |-> prints]

\* save_schedule_json(json_data): the returned text, the file afterwards and
\* the number of printed warnings.
save_schedule_json(json_data, file) ==
    LET valid_events == ValidEvents(Get(json_data, "events", <<>>))
        prints == MissingFieldPrints(Get(json_data, "events", <<>>))
    IN  IF valid_events = <<>>
        THEN [output |-> NO_VALID_EVENTS, file |-> file, prints |-> prints]
        ELSE [output |-> SAVED, file |-> <<JsonDump(valid_events)>>, prints |-> prints]


-----------------------------------------------------------------------------
(* Calendar synchronisation *)

DefaultSummary == "Study Schedule"

\* The request body built for one event of the plan.
EventBody(event_data) ==
    [summary |-> Get(event_data, "summary", DefaultSummary),
     description |-> Get(event_data, "description", ""),
     start |-> [dateTime |-> event_data["start"]["dateTime"],
                timeZone |-> event_data["start"]["timeZone"]],
     end |-> [dateTime |-> event_data["end"]["dateTime"],
              timeZone |-> event_data["end"]["timeZone"]]]

Bodies(events) == [i \in 1..Len(events) |-> EventBody(events[i])]

Prefix(s, n) == SubSeq(s, 1, n)

SYNCED_CALENDAR == "Study plan has been synced to Google Calendar."

\* The insert loop with a handler around each insert: a rejected insert is
\* skipped and the loop goes on.
create_events_from_plan_SkipsRejected(plan, rejectAt) ==
    IF Get(plan, "events", <<>>) = <<>>
    THEN [raised |-> "ValueError", output |-> "", calls |-> <<>>, created |-> <<>>]
    ELSE LET bodies == Bodies(plan["events"])
         IN  IF rejectAt \in 1..Len(bodies)
             THEN [raised |-> "HttpError", output |-> "",
                   calls |-> bodies,
                   created |-> SubSeq(bodies, 1, rejectAt - 1)
                               \o SubSeq(bodies, rejectAt + 1, Len(bodies))]
             ELSE [raised |-> "", output |-> "Study plan has been synced to Google Calendar.",
                   calls |-> bodies, created |-> bodies]

\* create_events_from_plan(plan) against a calendar that rejects the insert
\* number rejectAt (0: it accepts every insert).  The insert loop has no
\* handler: the rejected insert raises out of the loop, the inserts before it
\* have been executed and the ones after it are never submitted.
create_events_from_plan(plan, rejectAt) ==
    IF Get(plan, "events", <<>>) = <<>>
    THEN [raised |-> "ValueError", output |-> "", calls |-> <<>>, created |-> <<>>]
    ELSE LET bodies == Bodies(plan["events"])
         IN  IF rejectAt \in 1..Len(bodies)
             THEN [raised |-> "HttpError", output |-> "",
                   calls |-> Prefix(bodies, rejectAt),
                   created |-> Prefix(bodies, rejectAt - 1)]
             ELSE [raised |-> "", output |-> SYNCED_CALENDAR,
                   calls |-> bodies, created |-> bodies]

SYNCED == "Study plan synced to Google Calendar."

\* Without the os.path.exists check: a missing file read as a plan without events.
load_schedule_json_NoExistsCheck(file, rejectAt) ==
    LET data == IF file = NoFile THEN [events |-> <<>>] ELSE JsonLoad(file[1])
        r == create_events_from_plan(data, rejectAt)
    IN  [raised |-> r.raised,
         output |-> IF r.raised = "" THEN "Study plan synced to Google Calendar." ELSE "",
         calls |-> r.calls,
         created |-> r.created]

\* load_schedule_json(): what it raises or returns, and the inserts it made.
load_schedule_json(file, rejectAt) ==
    IF file = NoFile
    THEN [raised |-> "FileNotFoundError", output |-> "", calls |-> <<>>, created |-> <<>>]
    ELSE LET data == JsonLoad(file[1])
             r == create_events_from_plan(data, rejectAt)
         IN  [raised |-> r.raised,
              output |-> IF r.raised = "" THEN SYNCED ELSE "",
              calls |-> r.calls,
              created |-> r.created]

\* The text a tool execution contributes to the conversation: the returned
\* string, or "Error: <exception>" when the tool raised (the agent that owns
\* the tool turns the exception into the content of the tool result).
ERR_NOT_FOUND == "Error: plan.json file not found."

ERR_NO_EVENTS == "Error: No events found in the study plan."

ERR_INSERT == "Error: calendar insert rejected"

ToolResultContent(raised, output) ==
    CASE raised = "" -> output
      [] raised = "FileNotFoundError" -> ERR_NOT_FOUND
      [] raised = "ValueError" -> ERR_NO_EVENTS
      [] OTHER -> ERR_INSERT

-----------------------------------------------------------------------------
(* Messages and the selector *)

User == "User"

PlannerAgent == "PlannerAgent"

CalendarAgent == "CalendarAgent"

Participants == {User, PlannerAgent, CalendarAgent}

EXIT == "EXIT"

\* What the user may send as the message of a run.
UserMessages == {"plan my week", "ok, save it", EXIT}

\* What an agent may answer when it makes no tool call.
PlannerTexts == {"Here is a draft plan", EXIT}

CalendarTexts == {"Failed to sync study plan to Google Calendar.", EXIT}

\* The user message asks for a study plan or for a change of it.
IsPlanRequest(content) == content \in {"plan my week"}

\* TextMentionTermination("EXIT"): the text is mentioned in the content.
TextMentionTermination(content) == content \in {EXIT}

TextMessage(source, content) ==
    [source |-> source, type |-> "TextMessage", content |-> content]

\* The messages of a turn that runs a tool: the call, its execution and the
\* summary message that carries the tool's result as the agent's reply.
ToolTurnMessages(source, tool, content) ==
    <<[source |-> source, type |-> "ToolCallRequestEvent", content |-> tool],
      [source |-> source, type |-> "ToolCallExecutionEvent", content |-> content],
      [source |-> source, type |-> "ToolCallSummaryMessage", content |-> content]>>

IsChatMessage(m) == m.type \in {"TextMessage", "ToolCallSummaryMessage"}

Last(s) == s[Len(s)]

NoMessage == [source |-> "", type |-> "", content |-> ""]

\* {history} is the chat messages of the team, kept over the runs of the team.
\* It is held as the facts the rules of the prompt read in it: the last chat
\* message, whether PlannerAgent has called its tool (the call shows as the
\* summary message of the tool's result), and whether "JSON SAVED" is in it.
EmptyHistory == [last |-> NoMessage, planner_called |-> FALSE, json_saved |-> FALSE]

AddMessage(h, m) ==
    IF IsChatMessage(m)
    THEN [last |-> m,
          planner_called |-> h.planner_called
                             \/ (m.source = PlannerAgent /\ m.type = "ToolCallSummaryMessage"),
          json_saved |-> h.json_saved \/ m.content = SAVED]
    ELSE h

RECURSIVE AddMessages(_, _)
AddMessages(h, msgs) ==
    IF msgs = <<>> THEN h ELSE AddMessages(AddMessage(h, Head(msgs)), Tail(msgs))

IsUser(source) == source \in {"user", User}

\* Rule 1: the User is requesting or editing a study plan.
Rule1(h) ==
    /\ IsUser(h.last.source)
    /\ IsPlanRequest(h.last.content)

\* Rule 2: PlannerAgent has not yet called save_schedule_json.
Rule2(h) == ~ h.planner_called

\* Rule 3: PlannerAgent just called the tool, or "JSON SAVED" is in the history.
Rule3(h) ==
    \/ /\ h.last.source = PlannerAgent
       /\ h.last.type = "ToolCallSummaryMessage"
    \/ h.json_saved

\* Rule 4: CalendarAgent just finished syncing.
Rule4(h) ==
    /\ h.last.source = CalendarAgent
    /\ h.last.type = "ToolCallSummaryMessage"

RuleApplied_Rule3First(h) ==
    CASE Rule3(h) -> 3
      [] Rule1(h) -> 1
      [] Rule2(h) -> 2
      [] Rule4(h) -> 4
      [] OTHER -> 5

\* The number of the first rule of the selector prompt that applies.
RuleApplied(h) ==
    CASE Rule1(h) -> 1
      [] Rule2(h) -> 2
      [] Rule3(h) -> 3
      [] Rule4(h) -> 4
      [] OTHER -> 5

\* The selector: a model call given the selector prompt.  It is taken to
\* follow the rules of the prompt, the first rule that applies deciding.
select_speaker(h) ==
    CASE RuleApplied(h) = 1 -> PlannerAgent
      [] RuleApplied(h) = 2 -> PlannerAgent
      [] RuleApplied(h) = 3 -> CalendarAgent
      [] RuleApplied(h) = 4 -> User
      [] OTHER -> User

-----------------------------------------------------------------------------
(* The run of a conversation *)

\* The dict appended to conversation_history for one streamed item: the
\* streamed items carry a source and no name, so the agent read with
\* getattr(message, "name", "Unknown") is the default.
HistoryEntry(m) == [agent |-> "Unknown", content |-> m.content, type |-> "message"]

HistoryEntries(msgs) == [i \in 1..Len(msgs) |-> HistoryEntry(msgs[i])]

\* The last item of the stream of a run that ends normally is the task result,
\* which has neither name nor content.
TaskResultEntry == [agent |-> "Unknown", content |-> "", type |-> "message"]

NoResult ==
    [kind |-> "none", conversation_history |-> <<>>, final_message |-> <<>>,
     total_messages |-> 0]

\* The streamed messages counted without the task result that ends the stream.
CompletedResult_CountsMessagesOnly(hist) ==
    [kind |-> "completed",
     conversation_history |-> hist,
     final_message |-> IF hist # <<>> THEN <<hist[Len(hist)]>> ELSE <<>>,
     total_messages |-> Len(hist) - 1]

\* The dict returned at the end of the try block (final_message as a sequence
\* of at most one entry: empty stands for None).
CompletedResult(hist) ==
    [kind |-> "completed",
     conversation_history |-> hist,
     final_message |-> IF hist # <<>> THEN <<Last(hist)>> ELSE <<>>,
     total_messages |-> Len(hist)]

\* The dict returned by the except branch.
ErrorResult(hist) ==
    [kind |-> "error", conversation_history |-> hist, final_message |-> <<>>,
     total_messages |-> 0]

\* The dict returned at the end of the try block of run_conversation_with_socket.
SocketCompletedResult(hist) ==
    [kind |-> "completed",
     success |-> TRUE,
     conversation_history |-> hist,
     final_message |-> IF hist # <<>> THEN <<Last(hist)>> ELSE <<>>,
     total_messages |-> Len(hist)]

\* The call did not return: an exception left it (asyncio.CancelledError is
\* not an Exception, and an exception raised in the except branch is not
\* handled either).
RaisedResult ==
    [kind |-> "raised", conversation_history |-> <<>>, final_message |-> <<>>,
     total_messages |-> 0]

NoCall == [method |-> "none", socketio_service |-> "None"]

\* What the run returns when the stream has ended, by the method that runs it.
CompletedFor(method, hist) ==
    IF method = "run_conversation_with_socket"
    THEN SocketCompletedResult(hist)
    ELSE CompletedResult(hist)

\* The socketio_service argument: None, a service whose emit works, a service
\* whose emit raises.
SocketServices == {"None", "emits", "raises"}

\* The task_message events of run_conversation_with_socket.
StreamEmit(m) == [type |-> "stream", message |-> m.content]

CompleteEmit == [type |-> "complete", message |-> "Study planning conversation completed"]

ErrorEmit == [type |-> "error", message |-> "Error in conversation"]

\* The events emitted for the streamed messages msgs, and for the end of the
\* stream when it has ended (the task result has no content and is not emitted).
Emits(sink, msgs, ended) ==
    IF sink = "emits"
    THEN [i \in 1..Len(msgs) |-> StreamEmit(msgs[i])]
         \o (IF ended THEN <<CompleteEmit>> ELSE <<>>)
    ELSE <<>>

NoTool ==
    [tool |-> "none", input |-> <<>>, output |-> "", raised |-> "", prints |-> 0,
     calls |-> <<>>, created |-> <<>>, file_existed |-> FALSE]

\* A plan left in plan.json by an earlier process.
ItemOld == [summary |-> "History", start |-> "T07", end |-> "T08"]

OldFile == <<JsonDump(ValidEvents(<<ItemOld>>))>>

\* Plan candidates with malformed records, alone and next to well-formed ones.
MalformedCandidates ==
    {[events |-> <<ItemEmptySummary>>],
     [events |-> <<ItemFull, ItemEndBeforeStart>>],
     [events |-> <<ItemEndAtStart, ItemNoSummary>>]}

\* Every plan candidate of at most MaxEvents records, and the malformed ones.
Candidates ==
    {[events |-> items] : items \in SeqsUpTo(Items, MaxEvents)} \cup MalformedCandidates

\* The candidates a PlannerAgent turn may pass in a conversation: no valid
\* record, one valid record, one valid among two invalid, two valid records.
SessionCandidates ==
    {[events |-> <<ItemNoSummary>>],
     [events |-> <<ItemFull>>],
     [events |-> <<ItemNoSummary, ItemBare, ItemNoEnd>>],
     [events |-> <<ItemBare, ItemFull>>]}

\* The task ids the manager is called with.
TaskIds == {"task-1", "task-2"}

\* No entry under a task id (dict.get returns None).
NoTeam == [team |-> 0]

NoTeams == [task_id \in TaskIds |-> NoTeam]

NoOperation == [op |-> "none", task_id |-> "", value |-> NoTeam]

MentionsExit(msgs) ==
    \E i \in 1..Len(msgs) : IsChatMessage(msgs[i]) /\ TextMentionTermination(msgs[i].content)

MaxTurnsReached_OffByOne(n) == n > max_turns

\* The turn budget of the team: the run stops once max_turns turns are done.
MaxTurnsReached(n) == n >= max_turns

Init ==
    /\ max_turns \in 1..MaxTurns
    /\ initial_message = ""
    /\ conversation_history = <<>>
    /\ history = EmptyHistory
    /\ state = "Idle"
    /\ speaker = "none"
    /\ turn = 0
    /\ runs = 0
    /\ result = NoResult
    /\ plan_json \in {NoFile, OldFile}
    /\ calendar = <<>>
    /\ last_tool = NoTool
    /\ last_saved = <<>>
    /\ cancellation_token = FALSE
    /\ call = NoCall
    /\ emitted = <<>>
    /\ active_teams = NoTeams
    /\ teams_created = 0
    /\ returned = NoOperation
    /\ latest = [task_id \in TaskIds |-> 0]

TokenAtRunStart_Fresh(token) == FALSE

\* The token handed to run_stream: the token of the team, as it is.
TokenAtRunStart(token) == token

\* A run up to its first selection: the history is emptied, the task message
\* is handed to the team and streamed, and the termination condition is applied
\* to it.  With the token cancelled the stream raises before it yields
\* anything (whether the team has taken the task message by then is not
\* determined).  With a socket service whose emit raises, the emit of the task
\* message raises in the loop and the emit of the error raises in the except
\* branch.
BeginRun(user_message, method, source, socketio_service) ==
    /\ state \in {"Idle", "Terminated"}
    /\ runs < MaxRuns
    /\ runs' = runs + 1
    /\ initial_message' = user_message
    /\ turn' = 0
    /\ speaker' = "none"
    /\ call' = [method |-> method, socketio_service |-> socketio_service]
    /\ LET task == TextMessage(source, user_message)
       IN  IF TokenAtRunStart(cancellation_token)
           THEN /\ history' \in {history, AddMessage(history, task)}
                /\ conversation_history' = <<>>
                /\ state' = "Terminated"
                /\ result' = RaisedResult
                /\ emitted' = <<>>
           ELSE /\ history' = AddMessage(history, task)
                /\ IF socketio_service = "raises"
                   THEN /\ conversation_history' = <<HistoryEntry(task)>>
                        /\ state' = "Terminated"
                        /\ result' = RaisedResult
                        /\ emitted' = <<>>
                   ELSE IF MentionsExit(<<task>>)
                   THEN /\ conversation_history' = <<HistoryEntry(task), TaskResultEntry>>
                        /\ state' = "Terminated"
                        /\ result' = CompletedFor(method, conversation_history')
                        /\ emitted' = Emits(socketio_service, <<task>>, TRUE)
                   ELSE /\ conversation_history' = <<HistoryEntry(task)>>
                        /\ state' = "AwaitingSelector"
                        /\ result' = NoResult
                        /\ emitted' = Emits(socketio_service, <<task>>, FALSE)
    /\ UNCHANGED <<max_turns, cancellation_token, tool_vars, manager_vars>>

\* run_conversation(user_message) up to the first selection.
StartRun(user_message) == BeginRun(user_message, "run_conversation", "user", "None")

\* run_conversation_with_socket(user_message, ..., socketio_service) up to the
\* first selection: the task is a text message of source "User".
run_conversation_with_socket(user_message, socketio_service) ==
    BeginRun(user_message, "run_conversation_with_socket", User, socketio_service)

\* The selector picks the participant of the next turn.
Select ==
    /\ state = "AwaitingSelector"
    /\ speaker' = select_speaker(history)
    /\ state' = "AwaitingParticipantReply"
    /\ UNCHANGED <<max_turns, initial_message, conversation_history, history, turn,
                   runs, result, plan_json, calendar, last_tool, last_saved>>
    /\ UNCHANGED <<cancellation_token, call, emitted, manager_vars>>

\* The end of a turn whose messages are msgs: they are streamed into the
\* history, then the termination text and the turn budget are checked.
EndTurn(msgs) ==
    /\ history' = AddMessages(history, msgs)
    /\ turn' = turn + 1
    /\ IF MentionsExit(msgs) \/ MaxTurnsReached(turn + 1)
       THEN /\ conversation_history' =
                  Append(conversation_history \o HistoryEntries(msgs), TaskResultEntry)
            /\ state' = "Terminated"
            /\ result' = CompletedFor(call.method, conversation_history')
            /\ emitted' = emitted \o Emits(call.socketio_service, msgs, TRUE)
       ELSE /\ conversation_history' = conversation_history \o HistoryEntries(msgs)
            /\ state' = "AwaitingSelector"
            /\ result' = result
            /\ emitted' = emitted \o Emits(call.socketio_service, msgs, FALSE)
    /\ UNCHANGED <<max_turns, initial_message, speaker, runs>>
    /\ UNCHANGED <<cancellation_token, call, manager_vars>>

\* The User turn: the input function returns the initial message again.
UserTurn ==
    /\ state = "AwaitingParticipantReply"
    /\ speaker = User
    /\ EndTurn(<<TextMessage(User, initial_message)>>)
    /\ UNCHANGED <<plan_json, calendar, last_tool, last_saved>>

\* A PlannerAgent turn without a tool call.
PlannerText(content) ==
    /\ state = "AwaitingParticipantReply"
    /\ speaker = PlannerAgent
    /\ EndTurn(<<TextMessage(PlannerAgent, content)>>)
    /\ UNCHANGED <<plan_json, calendar, last_tool, last_saved>>

HasRequiredKeys(item) == {"summary", "start", "end"} \subseteq DOMAIN item

\* The execution of save_schedule_json(json_data) on the file as it is.
RunSave(json_data) ==
    LET r == save_schedule_json(json_data, plan_json)
    IN  /\ plan_json' = r.file
        /\ last_tool' = [tool |-> "save_schedule_json",
                         input |-> Get(json_data, "events", <<>>),
                         output |-> r.output, raised |-> "", prints |-> r.prints,
                         calls |-> <<>>, created |-> <<>>, file_existed |-> plan_json # NoFile]
        /\ last_saved' = IF r.output = SAVED
                         THEN SelectSeq(Get(json_data, "events", <<>>), HasRequiredKeys)
                         ELSE last_saved
        /\ UNCHANGED calendar

\* A PlannerAgent turn that calls save_schedule_json(json_data).
PlannerSave(json_data) ==
    /\ state = "AwaitingParticipantReply"
    /\ speaker = PlannerAgent
    /\ RunSave(json_data)
    /\ EndTurn(ToolTurnMessages(PlannerAgent, "save_schedule_json",
                                ToolResultContent("", save_schedule_json(json_data, plan_json).output)))

\* A CalendarAgent turn without a tool call.
CalendarText(content) ==
    /\ state = "AwaitingParticipantReply"
    /\ speaker = CalendarAgent
    /\ EndTurn(<<TextMessage(CalendarAgent, content)>>)
    /\ UNCHANGED <<plan_json, calendar, last_tool, last_saved>>

FileEvents(file) == IF file = NoFile THEN <<>> ELSE file[1].events

\* The execution of load_schedule_json() on the file as it is, the calendar
\* rejecting the insert number rejectAt (0: none).
RunLoad(rejectAt) ==
    LET r == load_schedule_json(plan_json, rejectAt)
    IN  /\ calendar' = calendar \o r.created
        /\ last_tool' = [tool |-> "load_schedule_json", input |-> <<>>,
                         output |-> r.output, raised |-> r.raised, prints |-> 0,
                         calls |-> r.calls, created |-> r.created,
                         file_existed |-> plan_json # NoFile]
        /\ UNCHANGED <<plan_json, last_saved>>

\* A CalendarAgent turn that calls load_schedule_json(), the calendar
\* rejecting the insert number rejectAt (0: none).
CalendarLoad(rejectAt) ==
    /\ state = "AwaitingParticipantReply"
    /\ speaker = CalendarAgent
    /\ RunLoad(rejectAt)
    /\ LET r == load_schedule_json(plan_json, rejectAt)
       IN  EndTurn(ToolTurnMessages(CalendarAgent, "load_schedule_json",
                                    ToolResultContent(r.raised, r.output)))

except_Exception_DropsHistory(hist) == ErrorResult(<<>>)

\* The except branch of run_conversation: what it returns for the history
\* accumulated so far.
except_Exception(hist) == ErrorResult(hist)

\* The selector or the selected participant raises (the model client fails):
\* the stream raises into the method that runs it, whose except branch
\* returns the error (and emits it when there is a socket service).
TurnError ==
    /\ state \in {"AwaitingSelector", "AwaitingParticipantReply"}
    /\ state' = "Terminated"
    /\ result' = except_Exception(conversation_history)
    /\ emitted' = IF call.socketio_service = "emits" THEN Append(emitted, ErrorEmit) ELSE emitted
    /\ UNCHANGED <<max_turns, initial_message, conversation_history, history, speaker,
                   turn, runs, plan_json, calendar, last_tool, last_saved>>
    /\ UNCHANGED <<cancellation_token, call, manager_vars>>

Next ==
    \/ \E m \in UserMessages : StartRun(m)
    \/ Select
    \/ UserTurn
    \/ \E c \in PlannerTexts : PlannerText(c)
    \/ \E d \in SessionCandidates : PlannerSave(d)
    \/ \E c \in CalendarTexts : CalendarText(c)
    \/ \E k \in 0..Len(FileEvents(plan_json)) : CalendarLoad(k)
    \/ TurnError

Spec == Init /\ [][Next]_vars

-----------------------------------------------------------------------------
(* The team with cancel_conversation called at any point *)

RunInProgress == state \in {"AwaitingSelector", "AwaitingParticipantReply"}

\* cancel_conversation(): the token is cancelled, which cancels the future the
\* stream of the run in progress is waiting on; the stream raises
\* asyncio.CancelledError into the method that runs it, whose
\* "except Exception" does not handle it.  With no run in progress only the
\* token changes.
cancel_conversation ==
    /\ cancellation_token' = TRUE
    /\ IF RunInProgress
       THEN /\ state' = "Terminated"
            /\ result' = RaisedResult
       ELSE UNCHANGED <<state, result>>
    /\ UNCHANGED <<max_turns, initial_message, conversation_history, history, speaker,
                   turn, runs, call, emitted, tool_vars, manager_vars>>

NextCancel ==
    \/ \E m \in UserMessages : StartRun(m)
    \/ Select
    \/ UserTurn
    \/ \E c \in PlannerTexts : PlannerText(c)
    \/ \E d \in SessionCandidates : PlannerSave(d)
    \/ \E c \in CalendarTexts : CalendarText(c)
    \/ \E k \in 0..Len(FileEvents(plan_json)) : CalendarLoad(k)
    \/ TurnError
    \/ cancel_conversation

SpecCancel == Init /\ [][NextCancel]_vars

-----------------------------------------------------------------------------
(* The team run with run_conversation_with_socket *)

NextSocket ==
    \/ \E m \in UserMessages, service \in SocketServices :
           run_conversation_with_socket(m, service)
    \/ Select
    \/ UserTurn
    \/ \E c \in PlannerTexts : PlannerText(c)
    \/ \E d \in SessionCandidates : PlannerSave(d)
    \/ \E c \in CalendarTexts : CalendarText(c)
    \/ \E k \in 0..Len(FileEvents(plan_json)) : CalendarLoad(k)
    \/ TurnError

SpecSocket == Init /\ [][NextSocket]_vars

-----------------------------------------------------------------------------
(* The team next to another team of the manager: both write plan.json *)

\* A PlannerAgent turn of another team calls save_schedule_json(json_data):
\* the tool writes the same file plan.json, whichever team runs it.
OtherTeamSave(json_data) ==
    /\ plan_json' = save_schedule_json(json_data, plan_json).file
    /\ plan_json' # plan_json
    /\ UNCHANGED <<team_vars, calendar, last_tool, last_saved, manager_vars>>

NextShared ==
    \/ \E m \in UserMessages : StartRun(m)
    \/ Select
    \/ UserTurn
    \/ \E c \in PlannerTexts : PlannerText(c)
    \/ \E d \in SessionCandidates : PlannerSave(d)
    \/ \E c \in CalendarTexts : CalendarText(c)
    \/ \E k \in 0..Len(FileEvents(plan_json)) : CalendarLoad(k)
    \/ TurnError
    \/ \E d \in SessionCandidates : OtherTeamSave(d)

SpecShared == Init /\ [][NextShared]_vars

-----------------------------------------------------------------------------
(* The manager and the teams it holds *)

\* A team as the callers of the manager see it: which object it is (the
\* number of its construction), its max_turns, its token, how many runs were
\* started on it and where the last one stands (Idle, Running, Completed,
\* Error, Raised).  The token is created by the constructor, not cancelled.
NewTeam(number, n) ==
    [team |-> number, max_turns |-> n, cancellation_token |-> FALSE,
     runs |-> 0, state |-> "Idle"]

SetTeam_KeepsExisting(teams, task_id, team) ==
    IF teams[task_id] # NoTeam THEN teams ELSE [teams EXCEPT ![task_id] = team]

\* self.active_teams[task_id] = team
SetTeam(teams, task_id, team) == [teams EXCEPT ![task_id] = team]

\* if task_id in self.active_teams: del self.active_teams[task_id]
DelTeam(teams, task_id) ==
    IF teams[task_id] # NoTeam THEN [teams EXCEPT ![task_id] = NoTeam] ELSE teams

create_team(task_id, n) ==
    /\ teams_created < MaxTeams
    /\ teams_created' = teams_created + 1
    /\ active_teams' = SetTeam(active_teams, task_id, NewTeam(teams_created + 1, n))
    /\ returned' = [op |-> "create_team", task_id |-> task_id,
                    value |-> NewTeam(teams_created + 1, n)]
    /\ latest' = [latest EXCEPT ![task_id] = teams_created + 1]
    /\ UNCHANGED <<team_vars, tool_vars>>

get_team(task_id) ==
    /\ returned' = [op |-> "get_team", task_id |-> task_id, value |-> active_teams[task_id]]
    /\ UNCHANGED <<active_teams, teams_created, latest, team_vars, tool_vars>>

remove_team(task_id) ==
    /\ active_teams' = DelTeam(active_teams, task_id)
    /\ returned' = [op |-> "remove_team", task_id |-> task_id, value |-> NoTeam]
    /\ latest' = [latest EXCEPT ![task_id] = 0]
    /\ UNCHANGED <<teams_created, team_vars, tool_vars>>

get_all_teams ==
    /\ returned' = [op |-> "get_all_teams", task_id |-> "", value |-> active_teams]
    /\ UNCHANGED <<active_teams, teams_created, latest, team_vars, tool_vars>>

\* An operation on the team held under task_id changes that object in place.
TeamBecomes(task_id, op, team) ==
    /\ active_teams' = [active_teams EXCEPT ![task_id] = team]
    /\ returned' = [op |-> op, task_id |-> task_id, value |-> team]
    /\ UNCHANGED <<teams_created, latest, team_vars, tool_vars>>

\* run_conversation or run_conversation_with_socket is called on the team
\* held under task_id: with the token cancelled the stream raises at once,
\* otherwise the run is in progress.
TeamRun(task_id, method) ==
    LET team == active_teams[task_id]
    IN  /\ team # NoTeam
        /\ team.state # "Running"
        /\ team.runs < MaxRuns
        /\ TeamBecomes(task_id, method,
                       [team EXCEPT !.runs = @ + 1,
                                    !.state = IF TokenAtRunStart(team.cancellation_token)
                                              THEN "Raised" ELSE "Running"])

\* The run in progress on the team ends: it completes, or its except branch
\* returns an error.
TeamRunEnds(task_id, outcome) ==
    LET team == active_teams[task_id]
    IN  /\ team # NoTeam
        /\ team.state = "Running"
        /\ TeamBecomes(task_id, "run ends", [team EXCEPT !.state = outcome])

\* cancel_conversation() is called on the team held under task_id.
TeamCancel(task_id) ==
    LET team == active_teams[task_id]
    IN  /\ team # NoTeam
        /\ TeamBecomes(task_id, "cancel_conversation",
                       [team EXCEPT !.cancellation_token = TRUE,
                                    !.state = IF @ = "Running" THEN "Raised" ELSE @])

\* save_state() and load_state(state) are called on the team held under
\* task_id: they save and load the state of the group chat and leave the
\* token, max_turns and the run as they are.
TeamSaveState(task_id) ==
    LET team == active_teams[task_id]
    IN  /\ team # NoTeam
        /\ team.state # "Running"
        /\ TeamBecomes(task_id, "save_state", team)

TeamLoadState(task_id) ==
    LET team == active_teams[task_id]
    IN  /\ team # NoTeam
        /\ team.state # "Running"
        /\ TeamBecomes(task_id, "load_state", team)

RunMethods == {"run_conversation", "run_conversation_with_socket"}

NextManager ==
    \/ \E task_id \in TaskIds : create_team(task_id, MaxTurns)
    \/ \E task_id \in TaskIds : get_team(task_id)
    \/ \E task_id \in TaskIds : remove_team(task_id)
    \/ get_all_teams
    \/ \E task_id \in TaskIds, method \in RunMethods : TeamRun(task_id, method)
    \/ \E task_id \in TaskIds, outcome \in {"Completed", "Error"} : TeamRunEnds(task_id, outcome)
    \/ \E task_id \in TaskIds : TeamCancel(task_id)
    \/ \E task_id \in TaskIds : TeamSaveState(task_id)
    \/ \E task_id \in TaskIds : TeamLoadState(task_id)

\* The manager as the module creates it: no team; the team followed in the
\* other specifications stands still.
InitManager ==
    /\ max_turns = 1
    /\ initial_message = ""
    /\ conversation_history = <<>>
    /\ history = EmptyHistory
    /\ state = "Manager"
    /\ speaker = "none"
    /\ turn = 0
    /\ runs = 0
    /\ result = NoResult
    /\ plan_json = NoFile
    /\ calendar = <<>>
    /\ last_tool = NoTool
    /\ last_saved = <<>>
    /\ cancellation_token = FALSE
    /\ call = NoCall
    /\ emitted = <<>>
    /\ active_teams = NoTeams
    /\ teams_created = 0
    /\ returned = NoOperation
    /\ latest = [task_id \in TaskIds |-> 0]

SpecManager == InitManager /\ [][NextManager]_vars

-----------------------------------------------------------------------------
(* The two tools called directly, in any order, on every plan candidate *)

InitTools ==
    /\ max_turns = 1
    /\ initial_message = ""
    /\ conversation_history = <<>>
    /\ history = EmptyHistory
    /\ state = "Tools"
    /\ speaker = "none"
    /\ turn = 0
    /\ runs = 0
    /\ result = NoResult
    /\ plan_json \in {NoFile, OldFile}
    /\ calendar = <<>>
    /\ last_tool = NoTool
    /\ last_saved = <<>>
    /\ cancellation_token = FALSE
    /\ call = NoCall
    /\ emitted = <<>>
    /\ active_teams = NoTeams
    /\ teams_created = 0
    /\ returned = NoOperation
    /\ latest = [task_id \in TaskIds |-> 0]

ToolSave(json_data) ==
    /\ state = "Tools"
    /\ turn < MaxToolCalls
    /\ turn' = turn + 1
    /\ RunSave(json_data)
    /\ UNCHANGED <<max_turns, initial_message, conversation_history, history, state,
                   speaker, runs, result>>
    /\ UNCHANGED <<cancellation_token, call, emitted, manager_vars>>

ToolLoad(rejectAt) ==
    /\ state = "Tools"
    /\ turn < MaxToolCalls
    /\ turn' = turn + 1
    /\ RunLoad(rejectAt)
    /\ UNCHANGED <<max_turns, initial_message, conversation_history, history, state,
                   speaker, runs, result>>
    /\ UNCHANGED <<cancellation_token, call, emitted, manager_vars>>

NextTools ==
    \/ \E d \in Candidates : ToolSave(d)
    \/ \E k \in 0..Len(FileEvents(plan_json)) : ToolLoad(k)

SpecTools == InitTools /\ [][NextTools]_vars

-----------------------------------------------------------------------------
(* Properties *)

\* The messages of the current run, as the history of the run records them.
RunMentionsExit ==
    \E i \in 1..Len(conversation_history) :
        TextMentionTermination(conversation_history[i].content)

ReplyMentionsExit ==
    \E i \in 2..Len(conversation_history) :
        TextMentionTermination(conversation_history[i].content)

Selected == state = "AwaitingParticipantReply"

\* C1 as stated: a run that ended normally and in which no reply contains
\* the termination text has ended at turn max_turns, not before.
C1_NoSentinelReplyEndsAtMaxTurns ==
    (state = "Terminated" /\ result.kind = "completed" /\ ~ReplyMentionsExit)
        => turn = max_turns

\* C1 amended: the run is over as soon as a message of it (the opening
\* message or a reply) contains the termination text, and otherwise at turn
\* max_turns: it never runs a turn beyond max_turns, no participant is selected
\* or dispatched once max_turns turns are done, and a run that ended normally
\* with no message containing the text has done exactly max_turns turns.
C1_TurnBudget ==
    /\ turn <= max_turns
    /\ state \in {"AwaitingSelector", "AwaitingParticipantReply"} => turn < max_turns
    /\ RunMentionsExit => state = "Terminated"
    /\ (state = "Terminated" /\ result.kind = "completed" /\ ~RunMentionsExit)
           => turn = max_turns

C1_Witness ==
    /\ state = "Terminated"
    /\ result.kind = "completed"
    /\ ~RunMentionsExit
    /\ max_turns = 3
    /\ turn = 3

\* C2: whenever CalendarAgent is the selected participant, a save of
\* PlannerAgent has written the plan before ("JSON SAVED" is in the history).
C2_SyncerOnlyAfterPlanSaved ==
    (Selected /\ speaker = CalendarAgent) => history.json_saved

\* The user message of the run is the most recent message of the User: the
\* User's turns repeat it.
LatestUserMessageRequestsPlan == runs > 0 /\ IsPlanRequest(initial_message)

\* No save of PlannerAgent has failed so far in the conversation.
NoSaveFailed == history.planner_called => history.json_saved

\* C3 as stated (taken on the conversations in which no save has failed):
\* whenever the most recent message of the User asks for a plan, the selected
\* participant is PlannerAgent.
C3_LatestUserRequestSelectsPlanner ==
    (Selected /\ LatestUserMessageRequestsPlan /\ NoSaveFailed) => speaker = PlannerAgent

Histories ==
    [last : {NoMessage}
            \cup {TextMessage(src, c) : src \in {"user", User}, c \in UserMessages}
            \cup {TextMessage(PlannerAgent, c) : c \in PlannerTexts}
            \cup {TextMessage(CalendarAgent, c) : c \in CalendarTexts}
            \cup {[source |-> PlannerAgent, type |-> "ToolCallSummaryMessage", content |-> c] :
                    c \in {SAVED, NO_VALID_EVENTS}}
            \cup {[source |-> CalendarAgent, type |-> "ToolCallSummaryMessage", content |-> c] :
                    c \in {SYNCED, ERR_NOT_FOUND, ERR_NO_EVENTS, ERR_INSERT}},
     planner_called : BOOLEAN,
     json_saved : BOOLEAN]

\* C3 amended: whenever the most recent message of the conversation is a
\* message of the User that asks for a plan, the selector picks PlannerAgent,
\* whatever the rest of the history says (plan saved or not, synced or not).
C3_Rule1First ==
    /\ (Selected /\ IsUser(history.last.source) /\ IsPlanRequest(history.last.content))
           => speaker = PlannerAgent
    /\ \A h \in Histories :
           (IsUser(h.last.source) /\ IsPlanRequest(h.last.content))
               => select_speaker(h) = PlannerAgent

C3_Witness ==
    /\ Selected
    /\ IsUser(history.last.source)
    /\ IsPlanRequest(history.last.content)
    /\ history.json_saved
    /\ last_tool.tool = "load_schedule_json"
    /\ speaker = PlannerAgent

\* The run was opened by the only message of the User in it.
SingleUserMessage ==
    /\ runs = 1
    /\ Cardinality({i \in 1..Len(conversation_history) :
                       conversation_history[i].content = initial_message}) = 1

PlannerJustSaved ==
    /\ history.last.source = PlannerAgent
    /\ history.last.type = "ToolCallSummaryMessage"
    /\ history.last.content = SAVED

CalendarJustSynced ==
    /\ history.last.source = CalendarAgent
    /\ history.last.type = "ToolCallSummaryMessage"

\* C4 (taken on the conversations in which no save has failed): in a run
\* opened by a plan request, with no other message of the User, PlannerAgent
\* is selected as long as no save has written the plan, then CalendarAgent
\* right after the save that wrote it, then the User right after the sync of
\* CalendarAgent.
C4_PlannerThenCalendarThenUser ==
    (Selected /\ SingleUserMessage /\ IsPlanRequest(initial_message) /\ NoSaveFailed) =>
        /\ ~history.json_saved => speaker = PlannerAgent
        /\ PlannerJustSaved => speaker = CalendarAgent
        /\ CalendarJustSynced => speaker = User

\* What the claims expect of a record that is kept: the event written to
\* plan.json and the body submitted to the calendar.
ExpectedTimeZone(item) == IF "timeZone" \in DOMAIN item THEN item.timeZone ELSE DefaultTimeZone

ExpectedDescription(item) == IF "description" \in DOMAIN item THEN item.description ELSE ""

ExpectedFileEvent(item) ==
    <<item.summary, <<item.start, ExpectedTimeZone(item)>>,
      <<item.end, ExpectedTimeZone(item)>>, ExpectedDescription(item)>>

ExpectedFile(kept) == <<[events |-> [i \in 1..Len(kept) |-> ExpectedFileEvent(kept[i])]]>>

ExpectedBody(item) ==
    [summary |-> item.summary,
     description |-> ExpectedDescription(item),
     start |-> [dateTime |-> item.start, timeZone |-> ExpectedTimeZone(item)],
     end |-> [dateTime |-> item.end, timeZone |-> ExpectedTimeZone(item)]]

ExpectedBodies(kept) == [i \in 1..Len(kept) |-> ExpectedBody(kept[i])]

Kept(items) == SelectSeq(items, HasRequiredKeys)

JustSaved == last_tool.tool = "save_schedule_json"

JustLoaded == last_tool.tool = "load_schedule_json"

\* C5: after save_schedule_json on any plan candidate, the records dropped are
\* exactly those lacking summary, start or end, one warning printed for each;
\* with no record left the answer is "No valid events to save.", otherwise it
\* is "JSON SAVED" and plan.json holds the kept records, in their order.
C5_PersistKeepsValidRecords ==
    JustSaved =>
        LET kept == Kept(last_tool.input)
        IN  /\ last_tool.prints = Len(last_tool.input) - Len(kept)
            /\ kept = <<>> => last_tool.output = NO_VALID_EVENTS
            /\ kept # <<>> =>
                   /\ last_tool.output = SAVED
                   /\ plan_json # NoFile
                   /\ Len(plan_json[1].events) = Len(kept)
                   /\ plan_json = ExpectedFile(kept)

C5_Witness ==
    /\ JustSaved
    /\ Len(last_tool.input) = 3
    /\ Len(Kept(last_tool.input)) = 1
    /\ HasRequiredKeys(last_tool.input[2])
    /\ last_tool.output = SAVED
    /\ last_tool.prints = 2
    /\ Len(plan_json[1].events) = 1

\* C6: after a save of N >= 1 records that are all valid, a sync in which the
\* calendar rejects nothing succeeds and submits exactly N inserts, the i-th
\* carrying the summary, start, end, time zone and description of the i-th
\* record.
C6_RoundTrip ==
    (JustLoaded /\ last_saved # <<>> /\ last_tool.raised # "HttpError") =>
        /\ last_tool.raised = ""
        /\ last_tool.output = SYNCED
        /\ Len(last_tool.calls) = Len(last_saved)
        /\ last_tool.calls = ExpectedBodies(last_saved)
        /\ last_tool.created = last_tool.calls

C6_Witness ==
    /\ JustLoaded
    /\ last_saved = <<ItemBare, ItemFull, ItemBare>>
    /\ last_tool.raised = ""
    /\ Len(last_tool.calls) = 3
    /\ last_tool.calls[2].start.timeZone = "UTC"
    /\ last_tool.calls[1].start.timeZone = DefaultTimeZone

\* C7: plan.json holds the plan of the last save that wrote it and nothing of
\* an earlier one (so saving the same plan again leaves it as it is), and a
\* sync submits the events of that plan only, in order.
C7_LastWriteWins ==
    last_saved # <<>> =>
        /\ plan_json = ExpectedFile(last_saved)
        /\ JustLoaded =>
               /\ Len(last_tool.calls) <= Len(last_saved)
               /\ last_tool.calls = Prefix(ExpectedBodies(last_saved), Len(last_tool.calls))
               /\ last_tool.raised = "" => last_tool.created = ExpectedBodies(last_saved)

\* A sync of an earlier plan is in the calendar, and the last sync created
\* the events of a different plan saved since.
C7_Witness ==
    /\ JustLoaded
    /\ last_saved # <<>>
    /\ last_tool.raised = ""
    /\ Len(calendar) > Len(last_tool.created)
    /\ calendar[1] # last_tool.created[1]
    /\ last_tool.created = ExpectedBodies(last_saved)

\* A step that is a CalendarAgent turn calling load_schedule_json.
CalendarLoadStep ==
    /\ state = "AwaitingParticipantReply"
    /\ speaker = CalendarAgent
    /\ turn' = turn + 1
    /\ history'.last.type = "ToolCallSummaryMessage"

\* The entries the step appends to the history of the run.
AppendedContents ==
    {conversation_history'[i].content :
        i \in (Len(conversation_history) + 1)..Len(conversation_history')}

\* C8: a sync while plan.json does not exist fails with "file not found",
\* submits nothing to the calendar, and its failure is a message of the
\* conversation: the run does not end with an error, and goes on to the next
\* selection unless the turn budget is used up.
C8_PlanNotFound ==
    [][(CalendarLoadStep /\ plan_json = NoFile) =>
           /\ last_tool'.raised = "FileNotFoundError"
           /\ last_tool'.calls = <<>>
           /\ calendar' = calendar
           /\ history'.last.content = ERR_NOT_FOUND
           /\ ERR_NOT_FOUND \in AppendedContents
           /\ result'.kind # "error"
           /\ turn' < max_turns => state' = "AwaitingSelector"
           /\ state' = "Terminated" => turn' = max_turns]_vars

C8_Witness ==
    /\ Selected
    /\ JustLoaded
    /\ plan_json = NoFile
    /\ last_tool.raised = "FileNotFoundError"
    /\ history.last.content = ERR_NOT_FOUND
    /\ calendar = <<>>

Suffix(s, n) == SubSeq(s, Len(s) - n + 1, Len(s))

\* C9: when the calendar rejects an insert of the sync, the sync is reported
\* as failed, the events inserted before the rejection stay in the calendar,
\* and the run goes on with the User selected next (it ends only on the turn
\* budget or on a later error).
C9_RejectedSyncThenUser ==
    (history.last.source = CalendarAgent /\ history.last.content = ERR_INSERT) =>
        /\ last_tool.raised = "HttpError"
        /\ last_tool.output # SYNCED
        /\ last_tool.created = Prefix(last_tool.calls, Len(last_tool.calls) - 1)
        /\ Len(calendar) >= Len(last_tool.created)
        /\ Suffix(calendar, Len(last_tool.created)) = last_tool.created
        /\ Selected => speaker = User
        /\ state = "Terminated" => (turn = max_turns \/ result.kind = "error")

\* The part of C9 that is not about the next selection.
C9_RejectedSyncKeepsCreated ==
    (history.last.source = CalendarAgent /\ history.last.content = ERR_INSERT) =>
        /\ last_tool.raised = "HttpError"
        /\ last_tool.output # SYNCED
        /\ last_tool.created = Prefix(last_tool.calls, Len(last_tool.calls) - 1)
        /\ Len(calendar) >= Len(last_tool.created)
        /\ Suffix(calendar, Len(last_tool.created)) = last_tool.created
        /\ state = "Terminated" => (turn = max_turns \/ result.kind = "error")

\* C10: when the selector or a participant raises, run_conversation returns
\* a result that carries the error; the run is over at that step, with no
\* selection after it, and the history returned is the history accumulated
\* before the failing turn, unchanged.
C10_ErrorKeepsHistory ==
    /\ [](result.kind = "error" =>
              /\ state = "Terminated"
              /\ result.conversation_history = conversation_history
              /\ conversation_history # <<>>
              /\ Last(conversation_history).content = history.last.content)
    /\ [][(result'.kind = "error" /\ result.kind # "error") =>
              /\ state \in {"AwaitingSelector", "AwaitingParticipantReply"}
              /\ state' = "Terminated"
              /\ result'.conversation_history = conversation_history
              /\ conversation_history' = conversation_history
              /\ history' = history
              /\ turn' = turn]_vars
    /\ [][result.kind = "error" => (speaker' = speaker \/ runs' = runs + 1)]_vars

C10_Witness ==
    /\ result.kind = "error"
    /\ state = "Terminated"
    /\ turn = 2
    /\ speaker = CalendarAgent
    /\ Len(result.conversation_history) = 7

-----------------------------------------------------------------------------
(* The records of the plan file, the sync loop and the failed save *)

\* The order of the timestamps of the plan candidates.
TimestampValue(t) ==
    CASE t = "T07" -> 7
      [] t = "T08" -> 8
      [] t = "T09" -> 9
      [] t = "T10" -> 10
      [] t = "T11" -> 11
      [] OTHER -> 0

\* An event of plan.json has a summary that is not empty and ends after it starts.
StructurallyValid(e) ==
    /\ e[1] # ""
    /\ TimestampValue(e[3][1]) > TimestampValue(e[2][1])

\* C15: every event that save_schedule_json has written to plan.json is
\* structurally valid: its summary is not empty and its end is after its
\* start; a record with an empty summary or with end <= start is never in
\* the file.
C15_PersistedRecordsStructurallyValid ==
    \A i \in 1..Len(FileEvents(plan_json)) : StructurallyValid(FileEvents(plan_json)[i])

\* The sync has read a plan.json that exists and holds events.
SyncReadPlan == JustLoaded /\ last_tool.file_existed /\ FileEvents(plan_json) # <<>>

\* C18 as stated: the sync submits each event of plan.json exactly once,
\* in order, also the events after one that the calendar rejected.
C18_SyncSubmitsEveryEventOnce ==
    SyncReadPlan => last_tool.calls = Bodies(JsonLoad(plan_json[1]).events)

\* C18 amended: the sync submits the events of plan.json in order, each at
\* most once, up to and including the first one the calendar rejects: the
\* events after a rejected one are not submitted, the events before it are
\* created, and with no rejection every event is submitted exactly once.
C18_SyncStopsAtFirstRejection ==
    SyncReadPlan =>
        LET bodies == Bodies(JsonLoad(plan_json[1]).events)
            n == Len(last_tool.calls)
        IN  /\ n \in 1..Len(bodies)
            /\ last_tool.calls = Prefix(bodies, n)
            /\ last_tool.raised = "" => (n = Len(bodies) /\ last_tool.created = bodies)
            /\ last_tool.raised # "" =>
                   /\ last_tool.raised = "HttpError"
                   /\ last_tool.created = Prefix(bodies, n - 1)

C18_Witness ==
    /\ SyncReadPlan
    /\ Len(FileEvents(plan_json)) = 3
    /\ last_tool.raised = "HttpError"
    /\ Len(last_tool.calls) = 2
    /\ Len(last_tool.created) = 1

\* The plan that plan.json holds: the one of the last save that wrote it, or
\* the one that was there at the start.
PlanInFile == IF last_saved # <<>> THEN last_saved ELSE <<ItemOld>>

FailedSave(t) == t.tool = "save_schedule_json" /\ t.output = NO_VALID_EVENTS

\* C19: a save that answers "No valid events to save." leaves plan.json as
\* it was; a sync that comes next submits the plan that was there before the
\* save, and fails with "file not found" when there was none.
C19_FailedPersistKeepsSlot ==
    /\ [][(turn' = turn + 1 /\ FailedSave(last_tool')) =>
              /\ plan_json' = plan_json
              /\ last_saved' = last_saved
              /\ calendar' = calendar]_vars
    /\ [][(FailedSave(last_tool) /\ turn' = turn + 1 /\ last_tool'.tool = "load_schedule_json") =>
              IF last_tool.file_existed
              THEN /\ last_tool'.raised \in {"", "HttpError"}
                   /\ Len(last_tool'.calls) >= 1
                   /\ last_tool'.calls = Prefix(ExpectedBodies(PlanInFile), Len(last_tool'.calls))
                   /\ last_tool'.raised = "" => last_tool'.created = ExpectedBodies(PlanInFile)
              ELSE /\ last_tool'.raised = "FileNotFoundError"
                   /\ last_tool'.calls = <<>>]_vars

C19_Witness ==
    /\ FailedSave(last_tool)
    /\ last_tool.file_existed
    /\ last_tool.prints = 2
    /\ last_saved = <<ItemBare, ItemFull>>
    /\ plan_json = ExpectedFile(last_saved)

-----------------------------------------------------------------------------
(* Repeated selections and the history over the runs *)

\* A step in which the selector picks the participant of the turn before
\* again, that turn having made no tool call (it ended with a text message).
RepeatedSelectionStep ==
    /\ state = "AwaitingSelector"
    /\ state' = "AwaitingParticipantReply"
    /\ speaker' = speaker
    /\ history.last.type = "TextMessage"

\* C16: when two selections that follow each other in a run pick the same
\* participant and the turn between them made no tool call, the second one is
\* made by rule 2 or by rule 5 of the selector prompt.
C16_RepeatedSelectionByRule2Or5 ==
    [][RepeatedSelectionStep => RuleApplied(history) \in {2, 5}]_vars

IsPrefix(s, t) == Len(s) <= Len(t) /\ s = SubSeq(t, 1, Len(s))

\* C17 as stated: over the whole life of the team the history before a step
\* is a prefix of the history after it, and the result of a run reports
\* total_messages as the length of the history and final_message as its
\* last entry.
C17_HistoryAppendOnly ==
    /\ [][IsPrefix(conversation_history, conversation_history')]_vars
    /\ [](result.kind = "completed" =>
              /\ result.total_messages = Len(conversation_history)
              /\ result.final_message = <<Last(conversation_history)>>)

\* C17 amended: within a run the history before a step is a prefix of the
\* history after it; the start of a run empties the history, which then
\* holds what the new run has streamed (its message, and the task result
\* when the run is over at once) and nothing of the runs before; and the
\* result of a run that completes carries the history of the run, with
\* total_messages its length and final_message its last entry.
C17_HistoryAppendOnlyWithinRun ==
    /\ [][runs' = runs => IsPrefix(conversation_history, conversation_history')]_vars
    /\ [][runs' # runs =>
              /\ Len(conversation_history') <= 2
              /\ \A i \in 1..Len(conversation_history') :
                     conversation_history'[i] =
                         IF i = 1
                         THEN HistoryEntry(TextMessage("user", initial_message'))
                         ELSE TaskResultEntry]_vars
    /\ [](result.kind = "completed" =>
              /\ result.conversation_history = conversation_history
              /\ result.total_messages = Len(conversation_history)
              /\ result.final_message = <<Last(conversation_history)>>)

C17_Witness ==
    /\ runs = 2
    /\ result.kind = "completed"
    /\ turn = 2
    /\ result.total_messages = 6
    /\ Len(conversation_history) = 6

-----------------------------------------------------------------------------
(* Cancellation *)

\* A step in which cancel_conversation is called while a run is in progress.
CancelInRunStep == RunInProgress /\ ~cancellation_token /\ cancellation_token'

\* C11: when cancel_conversation is called while a run is in progress, the
\* run is over with no participant selected or dispatched after it, the
\* method returns a result that is not an error and carries the history
\* accumulated so far, and plan.json and the calendar are left as they are.
C11_CancelReturnsPartialHistory ==
    [][CancelInRunStep =>
           /\ state' = "Terminated"
           /\ speaker' = speaker
           /\ turn' = turn
           /\ conversation_history' = conversation_history
           /\ result'.kind = "completed"
           /\ result'.conversation_history = conversation_history
           /\ plan_json' = plan_json
           /\ calendar' = calendar]_vars

-----------------------------------------------------------------------------
(* The socket service *)

\* Where a run of user_message stands before its first selection when there
\* is no socket service: over if the message holds the termination text,
\* waiting for the selector otherwise.
WithoutService(user_message) ==
    LET task == TextMessage(User, user_message)
    IN  IF TextMentionTermination(user_message)
        THEN [conversation_history |-> <<HistoryEntry(task), TaskResultEntry>>,
              state |-> "Terminated", kind |-> "completed"]
        ELSE [conversation_history |-> <<HistoryEntry(task)>>,
              state |-> "AwaitingSelector", kind |-> "none"]

\* C13: a run with a socket service, whatever the service does (its emit may
\* raise), appends the same history, is at the same point of the conversation
\* and has the same outcome as the run of the same message without a service.
C13_SinkIndependence ==
    [][runs' = runs + 1 =>
           /\ conversation_history' = WithoutService(initial_message').conversation_history
           /\ state' = WithoutService(initial_message').state
           /\ result'.kind = WithoutService(initial_message').kind]_vars

-----------------------------------------------------------------------------
(* The plan file shared by the teams *)

\* The sync has submitted events of the plan that the last save of the team
\* wrote (last_saved), and all of them unless the calendar rejected one.
SyncReadOwnPlan ==
    /\ last_saved # <<>>
    /\ last_tool.calls = Prefix(ExpectedBodies(last_saved), Len(last_tool.calls))
    /\ last_tool.raised = "" => last_tool.calls = ExpectedBodies(last_saved)

\* C14, for a team that syncs when an earlier team has left a plan in
\* plan.json: the plan that the sync reads was written by a save of the team
\* itself.
C14_SyncReadsOwnPlan ==
    (JustLoaded /\ last_tool.file_existed) => SyncReadOwnPlan

\* C14, for teams that save and sync at the same time: once the team has
\* saved its plan, the plan that its sync reads is the one its last save
\* wrote, whatever another team does with plan.json in between.
C14_SyncAfterSaveReadsOwnPlan ==
    (JustLoaded /\ last_tool.file_existed /\ last_saved # <<>>) => SyncReadOwnPlan

-----------------------------------------------------------------------------
(* The manager *)

ManagerOps == {"create_team", "get_team", "remove_team", "get_all_teams"}

\* C12: the manager is a map in which the last create wins: under every task
\* id it holds the team of the last create_team of that id with no
\* remove_team of it since (latest), and nothing otherwise; get_team returns
\* that team or None and get_all_teams the whole map; create_team on an id in
\* use replaces the team; remove_team of an id not in use changes nothing; and
\* create_team and remove_team of an id leave the entries of the other ids
\* as they are.
C12_LastCreateWins ==
    /\ [](/\ \A task_id \in TaskIds :
                 IF latest[task_id] = 0
                 THEN active_teams[task_id] = NoTeam
                 ELSE active_teams[task_id].team = latest[task_id]
          /\ returned.op = "get_team" => returned.value = active_teams[returned.task_id]
          /\ returned.op = "get_all_teams" => returned.value = active_teams
          /\ returned.op = "create_team" =>
                 /\ returned.value = active_teams[returned.task_id]
                 /\ returned.value.team = teams_created
          /\ returned.op = "remove_team" => active_teams[returned.task_id] = NoTeam)
    /\ [][returned'.op \in ManagerOps =>
              /\ \A task_id \in TaskIds \ {returned'.task_id} :
                     active_teams'[task_id] = active_teams[task_id]
              /\ returned'.op \in {"get_team", "get_all_teams"} => active_teams' = active_teams
              /\ (returned'.op = "remove_team" /\ active_teams[returned'.task_id] = NoTeam)
                     => active_teams' = active_teams
              /\ (returned'.op = "create_team" /\ teams_created' # teams_created)
                     => active_teams'[returned'.task_id].team
                            \notin {active_teams[task_id].team : task_id \in TaskIds}]_vars

\* A create_team has replaced the team held under an id, the other id holding
\* an older team.
C12_Witness ==
    /\ returned.op = "create_team"
    /\ returned.task_id = "task-1"
    /\ teams_created = 3
    /\ active_teams["task-1"].team = 3
    /\ active_teams["task-2"].team = 2

\* C20: the token of a team is the one its constructor made: no operation on
\* the team (a run by either method, the end of a run, save_state,
\* load_state, get_team) makes a cancelled token not cancelled, so a run
\* started on a team after cancel_conversation starts with the token
\* cancelled and is over at once; only create_team gives a team whose token
\* is not cancelled.
C20_CancellationSticky ==
    /\ [](/\ returned.op = "create_team" => ~returned.value.cancellation_token
          /\ \A task_id \in TaskIds :
                 active_teams[task_id] # NoTeam =>
                     ~(active_teams[task_id].cancellation_token
                       /\ active_teams[task_id].state = "Running"))
    /\ [][\A task_id \in TaskIds :
              (/\ active_teams[task_id] # NoTeam
               /\ active_teams[task_id].cancellation_token
               /\ active_teams'[task_id] # NoTeam
               /\ active_teams'[task_id].team = active_teams[task_id].team)
                  => /\ active_teams'[task_id].cancellation_token
                     /\ active_teams'[task_id].runs > active_teams[task_id].runs
                            => active_teams'[task_id].state = "Raised"]_vars

\* A team cancelled during its first run, fetched again and run again.
C20_Witness ==
    /\ returned.op \in RunMethods
    /\ returned.value.cancellation_token
    /\ returned.value.runs = 2
    /\ returned.value.state = "Raised"
    /\ active_teams[returned.task_id] = returned.value

=============================================================================
